---- MODULE Spec2Model ----
(***************************************************************************)
(* A model of what-snow-day-is-it: SnowAnalyzer (src/src/analyzer.py) and  *)
(* the orchestration run_snow_day_lookup (src/demo.py).                    *)
(*                                                                         *)
(* Dates are Python datetime.date values.  A date is modelled by its       *)
(* proleptic Gregorian ordinal (date.toordinal()); construction,           *)
(* field access and timedelta addition go through Ymd2Ord / Ord2Ymd, which *)
(* follow CPython's datetime algorithms.  Measurements are floats in the   *)
(* program; the model draws them from small integers and keeps medians and *)
(* means as reduced fractions <<numerator, denominator>>.                  *)
(***************************************************************************)
EXTENDS Integers, Sequences, FiniteSets, TLC

VARIABLES
    \* get_snow_year_dates
    snow_year_start, dates, pcD,
    \* find_equivalent_days
    current_value, median_year_data, candidates, results, pcE,
    \* calculate_daily_medians / calculate_daily_means
    historical_data, day_buckets, stats_map, raised, pcA,
    \* run_snow_day_lookup: its arguments
    station_input, target_date, mode, ref_year,
    \* run_snow_day_lookup: its locals
    snow_year, current_val, check_date, current_data, tries, ref_data,
    tendency_data, lookup_historical_data, lookup_stats_map, sy_dates, profile, equiv_days,
    \* run_snow_day_lookup: the calls made so far, the exception that left it,
    \* and where it stands
    calls, lookup_exc, pcL

varsD == <<snow_year_start, dates, pcD>>
varsE == <<current_value, median_year_data, candidates, results, pcE>>
varsA == <<historical_data, day_buckets, stats_map, raised, pcA>>
argsL == <<station_input, target_date, mode, ref_year>>
localsL == <<snow_year, current_val, check_date, current_data, tries, ref_data,
             tendency_data, lookup_historical_data, lookup_stats_map, sy_dates, profile,
             equiv_days>>
varsL == <<argsL, localsL, calls, lookup_exc, pcL>>
vars == <<varsD, varsE, varsA, varsL>>

-----------------------------------------------------------------------------
(* Bounds of the model *)

\* first and last snow year handed to get_snow_year_dates
YearLo == 1896
YearHi == 2105
\* find_equivalent_days: the profile covers days 1..MaxDay, values 0..MaxVal
MaxDay == 5
MaxVal == 3
\* calculate_daily_medians / calculate_daily_means: entries of historical_data
MaxEntries == 3
\* run_snow_day_lookup: records in one response of the data provider
MaxRecords == 2

-----------------------------------------------------------------------------
(* Calendar: datetime.date *)

\* datetime._is_leap
IsLeap(y) == y % 4 = 0 /\ (y % 100 # 0 \/ y % 400 = 0)

\* datetime._DAYS_IN_MONTH
DaysInMonthTable == <<31, 28, 31, 30, 31, 30, 31, 31, 30, 31, 30, 31>>

\* datetime._DAYS_BEFORE_MONTH
DaysBeforeMonthTable == <<0, 31, 59, 90, 120, 151, 181, 212, 243, 273, 304, 334>>

\* datetime._days_in_month
DaysInMonth(y, m) == IF m = 2 /\ IsLeap(y) THEN 29 ELSE DaysInMonthTable[m]

\* datetime._days_before_year
DaysBeforeYear(y) ==
    LET p == y - 1 IN p * 365 + (p \div 4) - (p \div 100) + (p \div 400)

\* datetime._days_before_month
DaysBeforeMonth(y, m) ==
    DaysBeforeMonthTable[m] + (IF m > 2 /\ IsLeap(y) THEN 1 ELSE 0)

\* date(y, m, d): datetime._ymd2ord
Ymd2Ord(y, m, d) == DaysBeforeYear(y) + DaysBeforeMonth(y, m) + d

\* date.year / .month / .day: datetime._ord2ymd
Ord2Ymd(ord) ==
    LET n0   == ord - 1
        n400 == n0 \div 146097
        r400 == n0 % 146097
        n100 == r400 \div 36524
        r100 == r400 % 36524
        n4   == r100 \div 1461
        r4   == r100 % 1461
        n1   == r4 \div 365
        n    == r4 % 365
        year == n400 * 400 + 1 + n100 * 100 + n4 * 4 + n1
    IN  IF n1 = 4 \/ n100 = 4
        THEN [year |-> year - 1, month |-> 12, day |-> 31]
        ELSE LET leapyear == n1 = 3 /\ (n4 # 24 \/ n100 = 3)
                 m0   == (n + 50) \div 32
                 pre0 == DaysBeforeMonthTable[m0]
                             + (IF m0 > 2 /\ leapyear THEN 1 ELSE 0)
                 month == IF pre0 > n THEN m0 - 1 ELSE m0
                 pre  == IF pre0 > n
                         THEN pre0 - (DaysInMonthTable[month]
                                 + (IF month = 2 /\ leapyear THEN 1 ELSE 0))
                         ELSE pre0
             IN  [year |-> year, month |-> month, day |-> n - pre + 1]

\* d.strftime("%m-%d"): the month-day key of a date
MmDd(ord) == LET r == Ord2Ymd(ord) IN <<r.month, r.day>>

-----------------------------------------------------------------------------
(* SnowAnalyzer.get_snow_year_dates *)

\* range(366)
LoopDays == 366

StartDateJanuary(y) == Ymd2Ord(y, 1, 1)

\* start_date = date(snow_year_start - 1, 10, 1)
StartDate(y) == Ymd2Ord(y - 1, 10, 1)

StopNever(d, i) == FALSE

\* if d.month == 10 and d.day == 1 and i > 0: break
StopAtOct1(d, i) ==
    LET r == Ord2Ymd(d) IN r.month = 10 /\ r.day = 1 /\ i > 0

\* the index at which the for loop ends: the first i of range(366) at which
\* the break is taken, or 366 when the range is exhausted
LoopEnd(start) ==
    LET stops == {i \in 0..(LoopDays - 1) : StopAtOct1(start + i, i)}
    IN  IF stops = {} THEN LoopDays
        ELSE CHOOSE i \in stops : \A j \in stops : i <= j

\* the for loop: dates.append(start_date + timedelta(days=i)) for every i
\* before the loop's end
SnowYearLoop(start) == [k \in 1..LoopEnd(start) |-> start + (k - 1)]

GetSnowYearDates(y) == SnowYearLoop(StartDate(y))

-----------------------------------------------------------------------------
(* SnowAnalyzer.find_equivalent_days *)

\* abs()
Abs(x) == IF x < 0 THEN 0 - x ELSE x

\* the set of elements of a list: set(candidates)
Range(seq) == {seq[i] : i \in 1..Len(seq)}

SetMin(S) == CHOOSE x \in S : \A y \in S : x <= y

RECURSIVE SortedSeq(_)
\* sorted(list(S)) for a set of dates
SortedSeq(S) ==
    IF S = {} THEN <<>>
    ELSE LET m == SetMin(S) IN <<m>> \o SortedSeq(S \ {m})

\* diffs = [val - current_value for _, val in median_year_data]
Diffs(cv, data) == [i \in 1..Len(data) |-> data[i][2] - cv]

\* (diffs[i] > 0 and diffs[i+1] < 0) or (diffs[i] < 0 and diffs[i+1] > 0)
SignChange(a, b) == (a > 0 /\ b < 0) \/ (a < 0 /\ b > 0)

CloserFirstOrTie(a, b) == Abs(a) <= Abs(b)

\* abs(diffs[i]) < abs(diffs[i+1])
CloserFirst(a, b) == Abs(a) < Abs(b)

PairCandidateSkipGap(data, diffs, i) ==
    IF diffs[i] = 0 THEN <<data[i][1]>>
    ELSE IF SignChange(diffs[i], diffs[i + 1]) /\ data[i + 1][1] = data[i][1] + 1
         THEN IF CloserFirst(diffs[i], diffs[i + 1])
              THEN <<data[i][1]>>
              ELSE <<data[i + 1][1]>>
         ELSE <<>>

\* one iteration of "for i in range(len(diffs) - 1)": what it appends to
\* candidates (i is the 1-based index of the pair's first entry)
PairCandidate(data, diffs, i) ==
    IF diffs[i] = 0 THEN <<data[i][1]>>
    ELSE IF SignChange(diffs[i], diffs[i + 1])
         THEN IF CloserFirst(diffs[i], diffs[i + 1])
              THEN <<data[i][1]>>
              ELSE <<data[i + 1][1]>>
         ELSE <<>>

RECURSIVE PairLoop(_, _, _)
\* the loop over the adjacent pairs, from pair i on
PairLoop(data, diffs, i) ==
    IF i > Len(diffs) - 1 THEN <<>>
    ELSE PairCandidate(data, diffs, i) \o PairLoop(data, diffs, i + 1)

FinalCheckNone(data, diffs) == <<>>

\* if diffs and diffs[-1] == 0: candidates.append(median_year_data[-1][0])
FinalCheck(data, diffs) ==
    IF Len(diffs) > 0 /\ diffs[Len(diffs)] = 0
    THEN <<data[Len(data)][1]>>
    ELSE <<>>

\* the list candidates as it stands at line 124
Candidates(cv, data) ==
    LET diffs == Diffs(cv, data)
    IN  PairLoop(data, diffs, 1) \o FinalCheck(data, diffs)

IsNewMinOrTie(d, m) == Abs(d) <= m

\* if abs(d_val) < min_abs_diff
IsNewMin(d, m) == Abs(d) < m

RECURSIVE ClosestLoop(_, _, _, _)
\* for i, d_val in enumerate(diffs): the index closest_idx after the loop
ClosestLoop(diffs, i, closest_idx, min_abs_diff) ==
    IF i > Len(diffs) THEN closest_idx
    ELSE IF IsNewMin(diffs[i], min_abs_diff)
         THEN ClosestLoop(diffs, i + 1, i, Abs(diffs[i]))
         ELSE ClosestLoop(diffs, i + 1, closest_idx, min_abs_diff)

\* the fallback of lines 124-134
Fallback(data, diffs) ==
    IF Len(diffs) = 0 THEN <<>>
    ELSE <<data[ClosestLoop(diffs, 1, 1, Abs(diffs[1]))][1]>>

PickAll(unique_candidates) == unique_candidates

\* the last of unique_candidates before the first
PickLatestFirst(unique_candidates) ==
    IF unique_candidates = <<>> THEN <<>>
    ELSE IF Len(unique_candidates) > 1
         THEN <<unique_candidates[Len(unique_candidates)], unique_candidates[1]>>
         ELSE <<unique_candidates[1]>>

\* results: the first of unique_candidates and, when there are several,
\* the last
PickResults(unique_candidates) ==
    IF unique_candidates = <<>> THEN <<>>
    ELSE IF Len(unique_candidates) > 1
         THEN <<unique_candidates[1], unique_candidates[Len(unique_candidates)]>>
         ELSE <<unique_candidates[1]>>

FindEquivalentDays(cv, data) ==
    IF data = <<>> THEN <<>>
    ELSE LET cands == Candidates(cv, data)
         IN  IF cands = <<>>
             THEN Fallback(data, Diffs(cv, data))
             ELSE PickResults(SortedSeq(Range(cands)))

-----------------------------------------------------------------------------
(* SnowAnalyzer.calculate_daily_medians / calculate_daily_means *)

(* An entry of historical_data is a dict; the model keeps what               *)
(* entry.get("date") and entry.get("value") return:                         *)
(*   date:  [kind |-> "none"]  the key is missing or holds None             *)
(*          [kind |-> "text"]  a string that is no date, such as "invalid"  *)
(*          [kind |-> "iso", y, m, d]  the string "y-m-d" of three numbers  *)
(*   value: [kind |-> "none"]  the key is missing or holds None             *)
(*          [kind |-> "num", n]  a number                                   *)
(*          [kind |-> "text"]  a string that is no number ("not_a_number")  *)
(*          [kind |-> "list"]  an object float() does not accept            *)
NoDate == [kind |-> "none", y |-> 0, m |-> 0, d |-> 0]
TextDate == [kind |-> "text", y |-> 0, m |-> 0, d |-> 0]
IsoDate(y, m, d) == [kind |-> "iso", y |-> y, m |-> m, d |-> d]
NoValue == [kind |-> "none", n |-> 0]
NumValue(n) == [kind |-> "num", n |-> n]
TextValue == [kind |-> "text", n |-> 0]
ListValue == [kind |-> "list", n |-> 0]

\* datetime.strptime(d_str, "%Y-%m-%d"): the parsed date, or the exception
Strptime(d_str) ==
    IF d_str.kind = "none" THEN [exc |-> "TypeError", date |-> 0]
    ELSE IF d_str.kind # "iso" THEN [exc |-> "ValueError", date |-> 0]
    ELSE IF d_str.m \in 1..12 /\ d_str.d \in 1..DaysInMonth(d_str.y, d_str.m)
         THEN [exc |-> "none", date |-> Ymd2Ord(d_str.y, d_str.m, d_str.d)]
         ELSE [exc |-> "ValueError", date |-> 0]

\* float(val): the number, or the exception
FloatOf(val) ==
    CASE val.kind = "num"  -> [exc |-> "none", n |-> val.n]
      [] val.kind = "text" -> [exc |-> "ValueError", n |-> 0]
      [] OTHER             -> [exc |-> "TypeError", n |-> 0]

CaughtValueErrorOnly(exc) == exc = "ValueError"

\* except (ValueError, TypeError): continue
Caught(exc) == exc \in {"ValueError", "TypeError"}

\* if d_str is None or val is None: continue
SkippedAsNone(entry) == entry.date.kind = "none" \/ entry.value.kind = "none"

\* if mm_dd not in day_buckets: day_buckets[mm_dd] = []
WithBucket(buckets, mm_dd) ==
    IF mm_dd \in DOMAIN buckets THEN buckets
    ELSE [k \in DOMAIN buckets \cup {mm_dd} |->
             IF k = mm_dd THEN <<>> ELSE buckets[k]]

\* one iteration of "for entry in historical_data": the buckets after it and
\* the exception that leaves the function, if any
BucketEntry(buckets, entry) ==
    IF SkippedAsNone(entry) THEN [buckets |-> buckets, exc |-> "none"]
    ELSE LET dt == Strptime(entry.date) IN
         IF dt.exc # "none"
         THEN [buckets |-> buckets,
               exc |-> IF Caught(dt.exc) THEN "none" ELSE dt.exc]
         ELSE LET mm_dd == MmDd(dt.date)
                  made  == WithBucket(buckets, mm_dd)
                  f     == FloatOf(entry.value)
              IN  IF f.exc # "none"
                  THEN [buckets |-> made,
                        exc |-> IF Caught(f.exc) THEN "none" ELSE f.exc]
                  ELSE [buckets |-> [made EXCEPT ![mm_dd] = Append(@, f.n)],
                        exc |-> "none"]

RECURSIVE BucketLoop(_, _, _)
\* the loop over historical_data from entry i on
BucketLoop(data, i, buckets) ==
    IF i > Len(data) THEN [buckets |-> buckets, exc |-> "none"]
    ELSE LET r == BucketEntry(buckets, data[i]) IN
         IF r.exc # "none" THEN r
         ELSE BucketLoop(data, i + 1, r.buckets)

RECURSIVE Gcd(_, _)
Gcd(a, b) == IF b = 0 THEN a ELSE Gcd(b, a % b)

\* the number num/den as a reduced fraction
Frac(num, den) == LET g == Gcd(num, den) IN <<num \div g, den \div g>>

RECURSIVE Insert(_, _)
Insert(x, sorted) ==
    IF sorted = <<>> THEN <<x>>
    ELSE IF x <= Head(sorted) THEN <<x>> \o sorted
         ELSE <<Head(sorted)>> \o Insert(x, Tail(sorted))

RECURSIVE Sorted(_)
\* sorted(data)
Sorted(vals) == IF vals = <<>> THEN <<>> ELSE Insert(Head(vals), Sorted(Tail(vals)))

RECURSIVE SumSeq(_)
SumSeq(vals) == IF vals = <<>> THEN 0 ELSE Head(vals) + SumSeq(Tail(vals))

MedianUnsorted(vals) ==
    LET n == Len(vals)
    IN  IF n % 2 = 1 THEN Frac(vals[(n \div 2) + 1], 1)
        ELSE Frac(vals[n \div 2] + vals[(n \div 2) + 1], 2)

\* statistics.median of a non-empty list
Median(vals) ==
    LET data == Sorted(vals)
        n    == Len(data)
    IN  IF n % 2 = 1 THEN Frac(data[(n \div 2) + 1], 1)
        ELSE Frac(data[n \div 2] + data[(n \div 2) + 1], 2)

\* statistics.mean of a non-empty list
Mean(vals) == Frac(SumSeq(vals), Len(vals))

\* if vals:
NonEmptyBucket(vals) == vals # <<>>

\* the second loop: the statistic of every bucket that passes "if vals"
\* (statistics.median and statistics.mean raise StatisticsError on no data)
Aggregate(buckets, tendency) ==
    LET keys == {k \in DOMAIN buckets : NonEmptyBucket(buckets[k])}
    IN  IF \E k \in keys : buckets[k] = <<>>
        THEN [map |-> <<>>, exc |-> "StatisticsError"]
        ELSE [map |-> [k \in keys |->
                         IF tendency = "median" THEN Median(buckets[k])
                         ELSE Mean(buckets[k])],
              exc |-> "none"]

\* the whole function: day_buckets after the first loop, the returned
\* mapping, and the exception that left the function, if any
CalculateDaily(data, tendency) ==
    LET b == BucketLoop(data, 1, <<>>) IN
    IF b.exc # "none"
    THEN [buckets |-> b.buckets, map |-> <<>>, exc |-> b.exc]
    ELSE LET a == Aggregate(b.buckets, tendency)
         IN  [buckets |-> b.buckets, map |-> a.map, exc |-> a.exc]

CalculateDailyMedians(data) == CalculateDaily(data, "median")

CalculateDailyMeans(data) == CalculateDaily(data, "mean")

-----------------------------------------------------------------------------
(* run_snow_day_lookup (demo.py) *)

(* A record of the data provider is a dict with "date", "value" and, in a   *)
(* central-tendency response, the aggregate field ("median" or "average"):   *)
(*   field: [kind |-> "absent"]  the record has no such key                  *)
(*          [kind |-> "none"]    the key holds None                          *)
(*          [kind |-> "num", n]  the key holds a number                      *)
AbsentField == [kind |-> "absent", n |-> 0]
NoneField == [kind |-> "none", n |-> 0]
NumField(n) == [kind |-> "num", n |-> n]

\* date.strftime("%Y-%m-%d")
IsoOf(ord) == LET r == Ord2Ymd(ord) IN IsoDate(r.year, r.month, r.day)

\* for _ in range(4)
LookbackTries == 4

\* ":" in station_input, for the station inputs tried
Triplets == {"998:WA:SNTL"}

\* an entry of the list calls
Call(op, arg) == [op |-> op, arg |-> arg]

\* snow_year = dt.year + 1 if dt.month >= 10 else dt.year
SnowYearOf(dt) ==
    LET r == Ord2Ymd(dt) IN IF r.month >= 10 THEN r.year + 1 ELSE r.year

\* current_data and current_data[0].get("value"): a value of 0 is not taken
HasCurrentValueTruthy(response) ==
    /\ response # <<>>
    /\ response[1].value.kind # "none"
    /\ response[1].value.n # 0

\* current_data and current_data[0].get("value") is not None
HasCurrentValue(response) ==
    response # <<>> /\ response[1].value.kind # "none"

RECURSIVE LcmUpTo(_)
LcmUpTo(n) ==
    IF n <= 1 THEN 1
    ELSE LET l == LcmUpTo(n - 1) IN (l * n) \div Gcd(l, n)

\* A float of the lookup is a fraction <<numerator, denominator>>; fractions
\* are compared and subtracted as whole numbers of 1/Scale, Scale being a
\* multiple of every denominator a mean or median of the records can have.
Scale == LcmUpTo(MaxRecords)

Units(q) == q[1] * (Scale \div q[2])

\* the dict comprehension building ref_map: the last record of a month-day
\* wins; a date that does not parse raises
RefMap(data) ==
    LET bad == {i \in 1..Len(data) : Strptime(data[i].date).exc # "none"}
    IN  IF bad # {}
        THEN [map |-> <<>>, exc |-> Strptime(data[SetMin(bad)].date).exc]
        ELSE LET key(i) == MmDd(Strptime(data[i].date).date)
                 keys   == {key(i) : i \in 1..Len(data)}
                 last(k) == CHOOSE i \in 1..Len(data) :
                                /\ key(i) = k
                                /\ \A j \in 1..Len(data) : key(j) = k => j <= i
             IN  [map |-> [k \in keys |-> data[last(k)].value], exc |-> "none"]

\* the entries <<sds[k], value[k]>> for the indices k of K, ascending
ProfileAt(sds, K, value) ==
    LET ks == SortedSeq(K)
    IN  [j \in 1..Len(ks) |-> <<sds[ks[j]], value[ks[j]]>>]

\* mm_dd = d.strftime("%m-%d") for every d of the dates sds
KeysOf(sds) == [k \in 1..Len(sds) |-> MmDd(sds[k])]

\* the loop of lines 92-96 over the dates sds, keys being their month-day
\* keys and ref being ref_map: a value that is no number makes float raise
RefYearLoop(sds, keys, ref) ==
    LET val(k) == ref.map[keys[k]]
        K   == {k \in 1..Len(sds) :
                   keys[k] \in DOMAIN ref.map /\ val(k).kind # "none"}
        bad == {k \in K : FloatOf(val(k)).exc # "none"}
        ok  == {k \in K : bad # {} => k < SetMin(bad)}
        flt == [k \in ok |-> Frac(FloatOf(val(k)).n, 1)]
    IN  IF bad # {}
        THEN [profile |-> ProfileAt(sds, ok, flt),
              exc |-> FloatOf(val(SetMin(bad))).exc]
        ELSE [profile |-> ProfileAt(sds, ok, flt), exc |-> "none"]

\* year mode, lines 90-96: ref_map is built, then for d in sy_dates the
\* records of ref_map that hold a value are appended as (d, float(val))
ProjectRefYear(sds, keys, data) ==
    CHOOSE p \in {IF ref.exc # "none" THEN [profile |-> <<>>, exc |-> ref.exc]
                  ELSE RefYearLoop(sds, keys, ref) : ref \in {RefMap(data)}} : TRUE

\* lines 127-131: for d in sy_dates, the statistic of d's month-day, when
\* stats_map has one, is appended as (d, val)
ProjectStats(sds, keys, map) ==
    LET K == {k \in 1..Len(sds) : keys[k] \in DOMAIN map}
    IN  ProfileAt(sds, K, [k \in K |-> map[keys[k]]])

\* tendency_data and any(val_key in entry for entry in tendency_data)
ProviderAggregateUsed(data) ==
    data # <<>> /\ \E i \in 1..Len(data) : data[i].field.kind # "absent"

RECURSIVE ApiProfile(_, _)
\* lines 109-113: the provider's own statistic, record by record
ApiProfile(data, i) ==
    IF i > Len(data) THEN <<>>
    ELSE (IF data[i].field.kind = "num"
          THEN <<(<<Strptime(data[i].date).date, Frac(data[i].field.n, 1)>>)>>
          ELSE <<>>) \o ApiProfile(data, i + 1)

\* lines 121-124
LocalStats(data, m) ==
    IF m = "median" THEN CalculateDailyMedians(data) ELSE CalculateDailyMeans(data)

\* analyzer.find_equivalent_days(float(current_val), profile)
EquivDays(val, prof) ==
    FindEquivalentDays(Units(Frac(val.n, 1)),
                       [j \in 1..Len(prof) |-> <<prof[j][1], Units(prof[j][2])>>])

-----------------------------------------------------------------------------
(* Specification of get_snow_year_dates *)

IdleD == snow_year_start = 0 /\ dates = <<>> /\ pcD = "idle"
IdleE == /\ current_value = 0 /\ median_year_data = <<>> /\ candidates = <<>>
         /\ results = <<>> /\ pcE = "idle"
IdleA == /\ historical_data = <<>> /\ day_buckets = <<>> /\ stats_map = <<>>
         /\ raised = "none" /\ pcA = "idle"
IdleLocals ==
    /\ snow_year = 0 /\ current_val = [kind |-> "none", n |-> 0]
    /\ check_date = 0 /\ current_data = <<>> /\ tries = 0
    /\ ref_data = <<>> /\ tendency_data = <<>>
    /\ lookup_historical_data = <<>> /\ lookup_stats_map = <<>>
    /\ sy_dates = <<>> /\ profile = <<>> /\ equiv_days = <<>>
    /\ calls = <<>> /\ lookup_exc = "none"
IdleL == /\ station_input = "" /\ target_date = 0 /\ mode = "" /\ ref_year = 0
         /\ IdleLocals /\ pcL = "idle"

InitDates ==
    /\ snow_year_start \in YearLo..YearHi
    /\ dates = <<>>
    /\ pcD = "call"
    /\ IdleE
    /\ IdleA
    /\ IdleL

CallGetSnowYearDates ==
    /\ pcD = "call"
    /\ dates' = GetSnowYearDates(snow_year_start)
    /\ pcD' = "done"
    /\ UNCHANGED <<snow_year_start, varsE, varsA, varsL>>

NextDates == CallGetSnowYearDates

SpecDates == InitDates /\ [][NextDates]_vars

-----------------------------------------------------------------------------
(* Specification of find_equivalent_days *)

RECURSIVE ProfileOf(_, _)
\* the profile holding, in date order, one entry <<date, value>> per day of
\* 1..MaxDay that has a value (day d has no entry when avail[d] = -1)
ProfileOf(avail, d) ==
    IF d > MaxDay THEN <<>>
    ELSE (IF avail[d] >= 0 THEN <<(<<d, avail[d]>>)>> ELSE <<>>)
            \o ProfileOf(avail, d + 1)

InitEquiv ==
    /\ current_value \in 0..MaxVal
    /\ \E avail \in [1..MaxDay -> (-1)..MaxVal] :
           median_year_data = ProfileOf(avail, 1)
    /\ candidates = <<>>
    /\ results = <<>>
    /\ pcE = "call"
    /\ IdleD
    /\ IdleA
    /\ IdleL

CallFindEquivalentDays ==
    /\ pcE = "call"
    /\ candidates' = (IF median_year_data = <<>> THEN <<>>
                      ELSE Candidates(current_value, median_year_data))
    /\ results' = FindEquivalentDays(current_value, median_year_data)
    /\ pcE' = "done"
    /\ UNCHANGED <<current_value, median_year_data, varsD, varsA, varsL>>

NextEquiv == CallFindEquivalentDays

SpecEquiv == InitEquiv /\ [][NextEquiv]_vars

-----------------------------------------------------------------------------
(* Specification of calculate_daily_medians / calculate_daily_means *)

\* what "date" holds in the entries tried: missing, a string that is no
\* date, one day in two years, a second day, and a day that does not exist
DateInputs ==
    {NoDate, TextDate, IsoDate(2020, 1, 1), IsoDate(2021, 1, 1),
     IsoDate(2020, 1, 2), IsoDate(2021, 2, 29)}

\* what "value" holds in the entries tried
ValueInputs == {NoValue, TextValue, ListValue, NumValue(1), NumValue(4)}

\* the entries tried: a well-formed date with every value, and a malformed
\* date with a number (the value is not converted once the date has failed)
\* or, when the date is missing, with a missing value as well
EntryInputs ==
    {e \in [date : DateInputs, value : ValueInputs] :
        \/ Strptime(e.date).exc = "none"
        \/ e.value = NumValue(1)
        \/ e.date = NoDate /\ e.value = NoValue}

InitAgg ==
    /\ \E n \in 0..MaxEntries : historical_data \in [1..n -> EntryInputs]
    /\ day_buckets = <<>>
    /\ stats_map = <<>>
    /\ raised = "none"
    /\ pcA = "call"
    /\ IdleD
    /\ IdleE
    /\ IdleL

Returned(r, tendency) ==
    /\ day_buckets' = r.buckets
    /\ stats_map' = r.map
    /\ raised' = r.exc
    /\ pcA' = IF r.exc = "none" THEN tendency ELSE "raised"
    /\ UNCHANGED <<historical_data, varsD, varsE, varsL>>

CallCalculateDailyMedians ==
    /\ pcA = "call"
    /\ Returned(CalculateDailyMedians(historical_data), "median")

CallCalculateDailyMeans ==
    /\ pcA = "call"
    /\ Returned(CalculateDailyMeans(historical_data), "mean")

NextAgg == CallCalculateDailyMedians \/ CallCalculateDailyMeans

SpecAgg == InitAgg /\ [][NextAgg]_vars

-----------------------------------------------------------------------------
(* Specification of run_snow_day_lookup *)

RECURSIVE SeqsUpTo(_, _)
\* the lists of at most n elements of S
SeqsUpTo(S, n) ==
    IF n = 0 THEN {<<>>}
    ELSE LET shorter == SeqsUpTo(S, n - 1)
         IN  shorter \cup {Append(q, x) : q \in shorter, x \in S}

StationInputs == {"998:WA:SNTL", "Easy Pass"}

\* a day of a leap snow year and a day after October 1
TargetDateInputs == {IsoDate(2024, 3, 1), IsoDate(2024, 11, 15)}

\* mode and ref_year (0 stands for None)
ModeInputs == {<<"median", 0>>, <<"mean", 0>>, <<"year", 0>>, <<"year", 2020>>}

\* what the provider answers for one day
CurrentResponses(day) ==
    {<<>>} \cup {<<[date |-> IsoOf(day), value |-> v]>> :
                    v \in {NoValue, NumValue(0), NumValue(2)}}

\* records of the reference year: its first and last day and its leap day,
\* with and without a value, and a record whose value is malformed, whose
\* date is malformed, or whose date is missing
RefRecordInputs ==
    {[date |-> IsoDate(2019, 10, 1), value |-> NumValue(1)],
     [date |-> IsoDate(2019, 10, 1), value |-> NoValue],
     [date |-> IsoDate(2020, 2, 29), value |-> NumValue(3)],
     [date |-> IsoDate(2020, 9, 30), value |-> NumValue(3)],
     [date |-> IsoDate(2020, 9, 30), value |-> TextValue],
     [date |-> TextDate, value |-> NumValue(1)],
     [date |-> NoDate, value |-> NumValue(1)]}

\* records of a central-tendency response for the window that starts on
\* sy_start: the aggregate field missing, None, or a number
TendencyRecordInputs(sy_start) ==
    {[date |-> IsoOf(sy_start), value |-> NumValue(1), field |-> AbsentField],
     [date |-> IsoOf(sy_start), value |-> NumValue(1), field |-> NoneField],
     [date |-> IsoOf(sy_start), value |-> NumValue(1), field |-> NumField(1)],
     [date |-> IsoOf(sy_start + 1), value |-> NoValue, field |-> NoneField],
     [date |-> IsoOf(sy_start + 1), value |-> NoValue, field |-> NumField(3)]}

\* historical records: one day in two years, a leap day, a malformed value
HistoricalRecordInputs ==
    {[date |-> IsoDate(2020, 1, 1), value |-> NumValue(1)],
     [date |-> IsoDate(2021, 1, 1), value |-> NumValue(4)],
     [date |-> IsoDate(2020, 2, 29), value |-> NumValue(1)],
     [date |-> IsoDate(2020, 1, 2), value |-> TextValue]}

InitLookup ==
    /\ station_input \in StationInputs
    /\ target_date \in TargetDateInputs
    /\ \E a \in ModeInputs : mode = a[1] /\ ref_year = a[2]
    /\ IdleLocals
    /\ pcL = "resolve"
    /\ IdleD
    /\ IdleE
    /\ IdleA

\* dt = datetime.strptime(target_date, "%Y-%m-%d")
Dt == Strptime(target_date).date

OthersL == <<varsD, varsE, varsA>>

\* lines 14-49 with a station triplet: no search
ResolveTriplet ==
    /\ pcL = "resolve"
    /\ station_input \in Triplets
    /\ snow_year' = SnowYearOf(Dt)
    /\ check_date' = Dt
    /\ pcL' = "lookback"
    /\ UNCHANGED <<argsL, current_val, current_data, tries, ref_data,
                   tendency_data,
                   lookup_historical_data, lookup_stats_map, sy_dates, profile,
                   equiv_days, calls, lookup_exc, OthersL>>

\* lines 14-49 with a station name: one match goes on, none or several
\* return
SearchStation ==
    /\ pcL = "resolve"
    /\ station_input \notin Triplets
    /\ \E matches \in 0..2 :
           pcL' = IF matches = 1 THEN "lookback" ELSE "aborted"
    /\ snow_year' = SnowYearOf(Dt)
    /\ check_date' = Dt
    /\ calls' = Append(calls, Call("search_stations", 0))
    /\ UNCHANGED <<argsL, current_val, current_data, tries, ref_data,
                   tendency_data,
                   lookup_historical_data, lookup_stats_map, sy_dates, profile,
                   equiv_days, lookup_exc, OthersL>>

\* lines 54-66: one query of the lookback loop; after the last one without a
\* value the function returns
FetchCurrent ==
    /\ pcL = "lookback"
    /\ \E response \in CurrentResponses(check_date) :
           /\ current_data' = response
           /\ IF HasCurrentValue(response)
              THEN /\ current_val' = response[1].value
                   /\ check_date' = check_date
                   /\ pcL' = "profile"
              ELSE /\ current_val' = current_val
                   /\ check_date' = check_date - 1
                   /\ pcL' = IF tries + 1 < LookbackTries THEN "lookback"
                             ELSE "aborted"
    /\ tries' = tries + 1
    /\ calls' = Append(calls, Call("fetch_station_data", check_date))
    /\ UNCHANGED <<argsL, snow_year, ref_data, tendency_data,
                   lookup_historical_data, lookup_stats_map, sy_dates, profile,
                   equiv_days, lookup_exc, OthersL>>

\* lines 134-142, after the calls made so far in the step
Finish(prof, made) ==
    /\ profile' = prof
    /\ IF prof = <<>>
       THEN /\ equiv_days' = equiv_days
            /\ calls' = calls \o made
            /\ pcL' = "aborted"
       ELSE /\ equiv_days' = EquivDays(current_val, prof)
            /\ calls' = calls \o made \o <<Call("find_equivalent_days", 0)>>
            /\ pcL' = "done"

\* an exception leaves the function
Raise(exc, prof, made) ==
    /\ profile' = prof
    /\ equiv_days' = equiv_days
    /\ calls' = calls \o made
    /\ lookup_exc' = exc
    /\ pcL' = "raised"

\* lines 79-82
YearModeWithoutRefYear ==
    /\ pcL = "profile"
    /\ mode = "year"
    /\ ref_year = 0
    /\ pcL' = "aborted"
    /\ UNCHANGED <<argsL, localsL, calls, lookup_exc, OthersL>>

\* lines 83-96 and 134-142
FetchRefYear ==
    /\ pcL = "profile"
    /\ mode = "year"
    /\ ref_year # 0
    /\ \E sds \in {GetSnowYearDates(snow_year)} :
       \E keys \in {KeysOf(sds)} :
       \E data \in SeqsUpTo(RefRecordInputs, MaxRecords) :
           \E p \in {ProjectRefYear(sds, keys, data)} :
           LET made == <<Call("fetch_station_data", Ymd2Ord(ref_year - 1, 10, 1)),
                         Call("get_snow_year_dates", snow_year)>>
           IN  /\ ref_data' = data
               /\ sy_dates' = sds
               /\ IF p.exc # "none"
                  THEN Raise(p.exc, p.profile, made)
                  ELSE Finish(p.profile, made) /\ lookup_exc' = lookup_exc
    /\ UNCHANGED <<argsL, snow_year, current_val, check_date, current_data,
                   tries,
                   tendency_data, lookup_historical_data, lookup_stats_map,
                   OthersL>>

\* lines 98-113 and, with the provider's statistic, 134-142
FetchTendency ==
    /\ pcL = "profile"
    /\ mode \in {"median", "mean"}
    /\ LET sy_start == Ymd2Ord(snow_year - 2, 10, 1) IN
       \E data \in SeqsUpTo(TendencyRecordInputs(sy_start), MaxRecords) :
           LET made == <<Call("fetch_station_data", sy_start)>> IN
           /\ tendency_data' = data
           /\ IF ProviderAggregateUsed(data)
              THEN Finish(ApiProfile(data, 1), made)
              ELSE /\ pcL' = "historical"
                   /\ calls' = calls \o made
                   /\ UNCHANGED <<profile, equiv_days>>
    /\ UNCHANGED <<argsL, snow_year, current_val, check_date, current_data,
                   tries, ref_data,
                   lookup_historical_data, lookup_stats_map, sy_dates,
                   lookup_exc, OthersL>>

\* lines 115-131 and 134-142
FetchHistorical ==
    /\ pcL = "historical"
    /\ \E sds \in {GetSnowYearDates(snow_year)} :
       \E keys \in {KeysOf(sds)} :
       \E data \in SeqsUpTo(HistoricalRecordInputs, MaxRecords) :
           \E st \in {LocalStats(data, mode)} :
           LET made == <<Call("fetch_historical_data", 0),
                         Call(IF mode = "median" THEN "calculate_daily_medians"
                              ELSE "calculate_daily_means", 0)>>
           IN  /\ lookup_historical_data' = data
               /\ lookup_stats_map' = st.map
               /\ IF st.exc # "none"
                  THEN Raise(st.exc, <<>>, made) /\ sy_dates' = sy_dates
                  ELSE /\ sy_dates' = sds
                       /\ Finish(ProjectStats(sds, keys, st.map),
                                 made \o <<Call("get_snow_year_dates", snow_year)>>)
                       /\ lookup_exc' = lookup_exc
    /\ UNCHANGED <<argsL, snow_year, current_val, check_date, current_data,
                   tries, ref_data,
                   tendency_data, OthersL>>

NextLookup ==
    \/ ResolveTriplet
    \/ SearchStation
    \/ FetchCurrent
    \/ YearModeWithoutRefYear
    \/ FetchRefYear
    \/ FetchTendency
    \/ FetchHistorical

SpecLookup == InitLookup /\ [][NextLookup]_vars

-----------------------------------------------------------------------------
(* C1 *)

\* the day after a calendar date, by the Gregorian calendar's rules
GregorianLeap(y) == (y % 4 = 0 /\ y % 100 # 0) \/ y % 400 = 0

MonthLength(y, m) ==
    CASE m \in {4, 6, 9, 11} -> 30
      [] m = 2 -> IF GregorianLeap(y) THEN 29 ELSE 28
      [] OTHER -> 31

NextDay(r) ==
    IF r.day < MonthLength(r.year, r.month)
    THEN [year |-> r.year, month |-> r.month, day |-> r.day + 1]
    ELSE IF r.month < 12
         THEN [year |-> r.year, month |-> r.month + 1, day |-> 1]
         ELSE [year |-> r.year + 1, month |-> 1, day |-> 1]

\* C1: for every snow year Y the returned sequence starts at Oct 1 of Y-1,
\* ends at Sep 30 of Y, each date is the calendar day after the previous one,
\* and it has 366 entries when the span contains Feb 29 (Y is a leap year)
\* and 365 otherwise.
C1_SnowYearDates ==
    pcD = "done" =>
        LET Y == snow_year_start
            n == Len(dates)
        IN  /\ n > 0
            /\ Ord2Ymd(dates[1]) = [year |-> Y - 1, month |-> 10, day |-> 1]
            /\ Ord2Ymd(dates[n]) = [year |-> Y, month |-> 9, day |-> 30]
            /\ \A k \in 1..(n - 1) :
                   Ord2Ymd(dates[k + 1]) = NextDay(Ord2Ymd(dates[k]))
            /\ n = (IF GregorianLeap(Y) THEN 366 ELSE 365)
            /\ (GregorianLeap(Y) <=>
                   \E k \in 1..n : MmDd(dates[k]) = <<2, 29>>)

\* a leap snow year (366 entries) has been generated
C1_Witness == pcD = "done" /\ snow_year_start = 2024 /\ Len(dates) = 366

-----------------------------------------------------------------------------
(* C2 .. C6: find_equivalent_days *)

ProfLen == Len(median_year_data)
DateAt(i) == median_year_data[i][1]
ValueAt(i) == median_year_data[i][2]
DiffAt(i) == ValueAt(i) - current_value
Dist(i) == IF DiffAt(i) < 0 THEN current_value - ValueAt(i) ELSE DiffAt(i)

\* entries i and i+1 lie strictly on opposite sides of the target
Crosses(i) ==
    \/ ValueAt(i) > current_value /\ ValueAt(i + 1) < current_value
    \/ ValueAt(i) < current_value /\ ValueAt(i + 1) > current_value

\* the endpoint the tie-break rule selects for the pair (i, i+1)
Chosen(i) == IF Dist(i) < Dist(i + 1) THEN DateAt(i) ELSE DateAt(i + 1)

\* C2: the result holds 0, 1 or 2 dates, and it is empty exactly when the
\* profile is empty.
C2_AtMostTwo ==
    pcE = "done" =>
        /\ Len(results) \in {0, 1, 2}
        /\ (results = <<>> <=> median_year_data = <<>>)

\* a profile crossing the target four times has been solved
C2_Witness ==
    /\ pcE = "done"
    /\ ProfLen = 5
    /\ \A i \in 1..4 : Crosses(i)
    /\ Len(results) = 2

\* C3: every entry equal to the target, the last included, is a candidate;
\* and when a candidate was recorded the result is the earliest candidate
\* date followed, only if it is another date, by the latest candidate date.
C3_EarliestLatest ==
    pcE = "done" =>
        /\ \A i \in 1..ProfLen :
               ValueAt(i) = current_value => DateAt(i) \in Range(candidates)
        /\ candidates # <<>> =>
               LET C  == Range(candidates)
                   lo == CHOOSE x \in C : \A y \in C : x <= y
                   hi == CHOOSE x \in C : \A y \in C : y <= x
               IN  results = IF lo = hi THEN <<lo>> ELSE <<lo, hi>>

\* the triangle 0,1,2,1,0 with target 1 gives the 2nd and 4th dates, and a
\* trailing exact match is the latest date of a result
C3_Witness ==
    /\ pcE = "done"
    /\ median_year_data = <<(<<1, 0>>), (<<2, 1>>), (<<3, 2>>), (<<4, 1>>), (<<5, 0>>)>>
    /\ current_value = 1
    /\ results = <<2, 4>>

\* C4: for an adjacent pair on strictly opposite sides of the target the
\* date of entry i is recorded only when it is strictly closer, otherwise the
\* date of entry i+1 is: the date of an entry that differs from the target is
\* a candidate exactly when the pair before it or the pair after it selects
\* it, and a two-entry equidistant profile returns only the second date.
C4_TieBreakLater ==
    pcE = "done" =>
        /\ \A i \in 1..(ProfLen - 1) :
               Crosses(i) => Chosen(i) \in Range(candidates)
        /\ \A i \in 1..ProfLen :
               (ValueAt(i) # current_value /\ DateAt(i) \in Range(candidates)) =>
                   \/ i < ProfLen /\ Crosses(i) /\ Dist(i) < Dist(i + 1)
                   \/ i > 1 /\ Crosses(i - 1) /\ ~(Dist(i - 1) < Dist(i))
        /\ (ProfLen = 2 /\ Crosses(1) /\ Dist(1) = Dist(2)) =>
               results = <<DateAt(2)>>

\* a two-entry profile equidistant on opposite sides of the target
C4_Witness ==
    /\ pcE = "done"
    /\ ProfLen = 2
    /\ Crosses(1)
    /\ Dist(1) = Dist(2)
    /\ results = <<DateAt(2)>>

NeverEqualsNorCrosses ==
    /\ ProfLen > 0
    /\ \A i \in 1..ProfLen : ValueAt(i) # current_value
    /\ \A i \in 1..(ProfLen - 1) : ~Crosses(i)

\* C5: a non-empty profile that never equals and never crosses the target
\* records no candidate and returns exactly one date, that of the first
\* entry among those at the minimum distance from the target.
C5_FallbackClosest ==
    (pcE = "done" /\ NeverEqualsNorCrosses) =>
        /\ candidates = <<>>
        /\ \E i \in 1..ProfLen :
               /\ \A j \in 1..ProfLen : Dist(i) <= Dist(j)
               /\ \A j \in 1..(i - 1) : Dist(i) < Dist(j)
               /\ results = <<DateAt(i)>>

\* the fallback has chosen the first of two entries tied for the minimum,
\* which is not the first entry of the profile
C5_Witness ==
    /\ pcE = "done"
    /\ NeverEqualsNorCrosses
    /\ \E i \in 2..(ProfLen - 1) :
           /\ Dist(i) = Dist(i + 1)
           /\ Dist(i) < Dist(1)
           /\ results = <<DateAt(i)>>

\* entries i and i+1 are adjacent in the profile but not consecutive days
GapAfter(i) == DateAt(i + 1) > DateAt(i) + 1

\* C6 as stated: no candidate comes from a sign change across a date gap,
\* so every candidate is an exact match or the endpoint selected for a
\* crossing pair of consecutive days.
C6_NoCrossingAcrossGap ==
    pcE = "done" =>
        \A i \in 1..ProfLen :
            DateAt(i) \in Range(candidates) =>
                \/ ValueAt(i) = current_value
                \/ \E j \in 1..(ProfLen - 1) :
                       Crosses(j) /\ ~GapAfter(j) /\ Chosen(j) = DateAt(i)

\* C6 amended: dates play no part in detecting a crossing; a sign change
\* between two entries adjacent in the sequence records the selected
\* endpoint also when days are missing between them.
C6_CrossingAcrossGapRecorded ==
    pcE = "done" =>
        \A i \in 1..(ProfLen - 1) :
            (GapAfter(i) /\ Crosses(i)) =>
                /\ Chosen(i) \in Range(candidates)
                /\ results # <<>>
                /\ results[1] <= Chosen(i)
                /\ Chosen(i) <= results[Len(results)]

\* the only crossing of a profile lies across a gap and is returned
C6_Witness ==
    /\ pcE = "done"
    /\ ProfLen = 2
    /\ GapAfter(1)
    /\ Crosses(1)
    /\ results = <<Chosen(1)>>

-----------------------------------------------------------------------------
(* C7, C8: calculate_daily_medians / calculate_daily_means *)

\* an observation is valid when its date is an existing calendar day written
\* year-month-day and its value is a number
ValidEntry(e) ==
    /\ e.date.kind = "iso"
    /\ e.date.m \in 1..12
    /\ e.date.d \in 1..MonthLength(e.date.y, e.date.m)
    /\ e.value.kind = "num"

\* the month-day key of a valid observation, whatever its year
KeyOf(e) == <<e.date.m, e.date.d>>

ValidAt == {i \in 1..Len(historical_data) : ValidEntry(historical_data[i])}
ValidKeys == {KeyOf(historical_data[i]) : i \in ValidAt}
ValidAtKey(k) == {i \in ValidAt : KeyOf(historical_data[i]) = k}
AggDone == pcA \in {"median", "mean", "raised"}

\* C7: neither function raises on malformed entries; a malformed entry joins
\* no group while every valid one joins the group of its month-day, and an
\* input without a valid entry gives the empty mapping.
C7_MalformedSkipped ==
    AggDone =>
        /\ raised = "none"
        /\ pcA # "raised"
        /\ \A k \in DOMAIN day_buckets :
               Len(day_buckets[k]) = Cardinality(ValidAtKey(k))
        /\ \A k \in ValidKeys : k \in DOMAIN day_buckets
        /\ ValidAt = {} => stats_map = <<>>

\* malformed entries of each kind were skipped next to a valid one
C7_Witness ==
    /\ AggDone
    /\ Len(historical_data) = 3
    /\ historical_data[1].date = IsoDate(2021, 2, 29)
    /\ historical_data[2].value = ListValue
    /\ ValidAt = {3}
    /\ DOMAIN stats_map = {KeyOf(historical_data[3])}

\* the values of the valid observations of month-day k, as a bag:
\* how many of them equal v
NumbersAtKey(k) == {historical_data[i].value.n : i \in ValidAtKey(k)}
BelowAtKey(k, v) ==
    Cardinality({i \in ValidAtKey(k) : historical_data[i].value.n < v})
AtMostAtKey(k, v) ==
    Cardinality({i \in ValidAtKey(k) : historical_data[i].value.n <= v})

\* the j-th smallest of the valid values of month-day k
OrderStat(k, j) ==
    CHOOSE v \in NumbersAtKey(k) : BelowAtKey(k, v) < j /\ j <= AtMostAtKey(k, v)

RECURSIVE TotalOver(_)
TotalOver(I) ==
    IF I = {} THEN 0
    ELSE LET i == CHOOSE x \in I : TRUE
         IN  historical_data[i].value.n + TotalOver(I \ {i})

\* the fraction q equals num/den
FracEquals(q, num, den) == q[2] > 0 /\ q[1] * den = num * q[2]

IsMedianAtKey(q, k) ==
    LET n == Cardinality(ValidAtKey(k))
    IN  IF n % 2 = 1
        THEN FracEquals(q, OrderStat(k, (n + 1) \div 2), 1)
        ELSE FracEquals(q, OrderStat(k, n \div 2) + OrderStat(k, (n \div 2) + 1), 2)

IsMeanAtKey(q, k) ==
    FracEquals(q, TotalOver(ValidAtKey(k)), Cardinality(ValidAtKey(k)))

\* C8: the keys of the returned mapping are exactly the month-day keys of
\* the valid observations, whatever their years, and each key maps to the
\* median (resp. the arithmetic mean) of all valid values of that month-day;
\* a group without a valid value has no key.
C8_KeysAndStatistics ==
    /\ pcA \in {"median", "mean"} => DOMAIN stats_map = ValidKeys
    /\ pcA = "median" => \A k \in DOMAIN stats_map : IsMedianAtKey(stats_map[k], k)
    /\ pcA = "mean" => \A k \in DOMAIN stats_map : IsMeanAtKey(stats_map[k], k)

\* a median over three observations of one month-day in two years, given
\* out of order, next to a date whose value was discarded
C8_Witness ==
    /\ pcA = "median"
    /\ Len(historical_data) = 3
    /\ \A i \in 1..3 : historical_data[i].value = NumValue(IF i = 2 THEN 4 ELSE 1)
    /\ historical_data[1].date = IsoDate(2020, 1, 1)
    /\ historical_data[2].date = IsoDate(2021, 1, 1)
    /\ historical_data[3].date = IsoDate(2020, 1, 1)
    /\ stats_map[<<1, 1>>] = <<1, 1>>

-----------------------------------------------------------------------------
(* C9, C10: run_snow_day_lookup *)

LookupReturned == pcL \in {"done", "aborted"}

\* the lookup got past the current value, so the comparison data was asked for
ComparisonFetched == LookupReturned /\ current_val.kind = "num"

LocalAggregationCalled ==
    \E i \in 1..Len(calls) :
        calls[i].op \in {"calculate_daily_medians", "calculate_daily_means"}

\* some record of the provider's response carries a populated aggregate field
AggregatePopulated ==
    \E i \in 1..Len(tendency_data) : tendency_data[i].field.kind = "num"

\* the provider's statistic of every record that has one, in record order
ProviderProfile ==
    LET has == {i \in 1..Len(tendency_data) : tendency_data[i].field.kind = "num"}
    IN  /\ Len(profile) = Cardinality(has)
        /\ \A i \in has :
               LET j == Cardinality({h \in has : h <= i})
                   e == tendency_data[i]
               IN  profile[j] = <<Ymd2Ord(e.date.y, e.date.m, e.date.d),
                                  <<e.field.n, 1>> >>

\* C9: in median or mean mode the profile comes from the provider's aggregate
\* field when some record carries it populated, without local aggregation,
\* and the lookup falls back to the locally computed statistics whenever the
\* field is absent or unpopulated on every record.
C9_ProviderElseLocal ==
    (ComparisonFetched /\ mode \in {"median", "mean"}) =>
        IF AggregatePopulated
        THEN ProviderProfile /\ ~LocalAggregationCalled
        ELSE LocalAggregationCalled

\* the date of snow year Y that has month-day md, or 0 when it has none
DateOfKey(Y, md) ==
    LET y == IF md[1] >= 10 THEN Y - 1 ELSE Y
    IN  IF md[2] <= MonthLength(y, md[1]) THEN Ymd2Ord(y, md[1], md[2]) ELSE 0

\* the profile holds exactly one entry for date d, and it is <<d, v>>
OneEntry(d, v) ==
    /\ Cardinality({j \in 1..Len(profile) : profile[j][1] = d}) = 1
    /\ \E j \in 1..Len(profile) : profile[j] = <<d, v>>

\* d is a date of sy_dates = get_snow_year_dates(snow_year)
InSnowYear(d) ==
    /\ sy_dates # <<>>
    /\ d - sy_dates[1] + 1 \in 1..Len(sy_dates)
    /\ sy_dates[d - sy_dates[1] + 1] = d
    /\ Ymd2Ord(snow_year - 1, 10, 1) <= d
    /\ d <= Ymd2Ord(snow_year, 9, 30)

ProfileAscendingInSnowYear ==
    /\ \A j \in 1..(Len(profile) - 1) : profile[j][1] < profile[j + 1][1]
    /\ \A j \in 1..Len(profile) : InSnowYear(profile[j][1])

\* the record of ref_data that speaks for its month-day: the last one, when
\* several records share a month-day
RefSpeaks(i) ==
    \A j \in (i + 1)..Len(ref_data) : KeyOf(ref_data[j]) # KeyOf(ref_data[i])

\* C10: the profile projected onto snow year Y holds, for each date of the
\* snow year whose month-day has a matching non-null value, exactly one pair
\* (date, that value) and no entry for another date; it is strictly ascending
\* and every date lies inside snow year Y.  (Year mode: the records of the
\* reference year; otherwise: the locally computed statistics.)
C10_ProjectionProfile ==
    /\ (ComparisonFetched /\ mode = "year" /\ ref_year # 0) =>
           /\ \A i \in 1..Len(ref_data) :
                  (/\ RefSpeaks(i)
                   /\ ref_data[i].value.kind # "none"
                   /\ DateOfKey(snow_year, KeyOf(ref_data[i])) # 0) =>
                      OneEntry(DateOfKey(snow_year, KeyOf(ref_data[i])),
                               <<ref_data[i].value.n, 1>>)
           /\ \A j \in 1..Len(profile) :
                  \E i \in 1..Len(ref_data) :
                      /\ RefSpeaks(i)
                      /\ ref_data[i].value.kind # "none"
                      /\ profile[j][1] = DateOfKey(snow_year, KeyOf(ref_data[i]))
           /\ ProfileAscendingInSnowYear
    /\ (ComparisonFetched /\ LocalAggregationCalled) =>
           /\ \A md \in DOMAIN lookup_stats_map :
                  DateOfKey(snow_year, md) # 0 =>
                      OneEntry(DateOfKey(snow_year, md), lookup_stats_map[md])
           /\ \A j \in 1..Len(profile) :
                  \E md \in DOMAIN lookup_stats_map :
                      profile[j][1] = DateOfKey(snow_year, md)
           /\ ProfileAscendingInSnowYear

\* records given last day first are projected in date order onto a snow year
\* without a leap day
C10_Witness ==
    /\ pcL = "done"
    /\ mode = "year"
    /\ snow_year = 2025
    /\ Len(ref_data) = 2
    /\ ref_data[1].date = IsoDate(2020, 9, 30)
    /\ ref_data[2].date = IsoDate(2019, 10, 1)
    /\ profile = <<(<<Ymd2Ord(2024, 10, 1), <<1, 1>> >>),
                   (<<Ymd2Ord(2025, 9, 30), <<3, 1>> >>)>>

-----------------------------------------------------------------------------
(* C11: malformed reference observations in year mode *)

\* the lookup reached the year-mode projection and left it, one way or another
YearModeProjected ==
    /\ mode = "year"
    /\ ref_year # 0
    /\ current_val.kind = "num"
    /\ pcL \in {"done", "aborted", "raised"}

\* the well-formed record of ref_data that speaks for its month-day: the last
\* well-formed one
WellFormedSpeaks(i) ==
    /\ ValidEntry(ref_data[i])
    /\ \A j \in (i + 1)..Len(ref_data) :
           ValidEntry(ref_data[j]) => KeyOf(ref_data[j]) # KeyOf(ref_data[i])

\* C11: the year-mode projection never raises because of a malformed reference
\* observation (unparsable or missing date, non-numeric value); it discards
\* such observations and still projects every well-formed one onto the snow
\* year.
C11_MalformedRefDiscarded ==
    YearModeProjected =>
        /\ pcL # "raised"
        /\ lookup_exc = "none"
        /\ \A i \in 1..Len(ref_data) :
               (WellFormedSpeaks(i)
                /\ DateOfKey(snow_year, KeyOf(ref_data[i])) # 0) =>
                   OneEntry(DateOfKey(snow_year, KeyOf(ref_data[i])),
                            <<ref_data[i].value.n, 1>>)

-----------------------------------------------------------------------------
(* C12: the lookback for the current value *)

\* the day named by the argument target_date
TargetDay == Ymd2Ord(target_date.y, target_date.m, target_date.d)

\* the provider queries made so far, in the order made
Queries == SelectSeq(calls, LAMBDA c : c.op = "fetch_station_data")

\* the first record of a response has a non-null value; 0 is a value
Present(response) == response # <<>> /\ response[1].value.kind = "num"

ValueFound == current_val.kind = "num"

\* the lookback ended without a value
LookbackExhausted == pcL = "aborted" /\ ~ValueFound /\ Queries # <<>>

\* the number of days the lookback has asked for
DaysAsked ==
    IF ValueFound THEN TargetDay - check_date + 1 ELSE Len(Queries)

C12_LookbackState ==
    \* the days asked for are the target date and the days before it, in
    \* that order, four at most
    /\ DaysAsked \in 0..4
    /\ DaysAsked <= Len(Queries)
    /\ \A i \in 1..DaysAsked : Queries[i].arg = TargetDay - (i - 1)
    \* while it goes on, the last day asked for had no value
    /\ (pcL = "lookback" /\ Queries # <<>>) =>
           ~Present(current_data) /\ ~ValueFound /\ DaysAsked < 4
    \* the value taken is that of the first record of the day it stopped at
    /\ ValueFound =>
           /\ Present(current_data)
           /\ current_data[1].date = IsoOf(TargetDay - (DaysAsked - 1))
           /\ current_val = current_data[1].value
           /\ Len(Queries) <= DaysAsked + 1
    \* none of the four days had a value: nothing else was fetched or computed
    /\ LookbackExhausted =>
           /\ Len(Queries) = 4
           /\ ~Present(current_data)
           /\ \A i \in 1..Len(calls) :
                  calls[i].op \in {"search_stations", "fetch_station_data"}
           /\ ref_data = <<>> /\ tendency_data = <<>>
           /\ lookup_historical_data = <<>> /\ lookup_stats_map = <<>>
           /\ profile = <<>> /\ equiv_days = <<>>
    \* and nothing past the lookback runs without a value
    /\ pcL \in {"profile", "historical", "done", "raised"} => ValueFound

\* one step of the lookback: one more day is asked for, the day before the
\* last; it stops exactly when that day has a value
C12_LookbackStep ==
    pcL = "lookback" =>
        /\ Len(Queries') = Len(Queries) + 1
        /\ Queries'[Len(Queries')].arg = TargetDay - Len(Queries)
        /\ IF Present(current_data')
           THEN pcL' = "profile" /\ current_val' = current_data'[1].value
           ELSE /\ ~ValueFound'
                /\ pcL' = IF Len(Queries') < 4 THEN "lookback" ELSE "aborted"

\* C12: the current value is looked for on the target date and then on each
\* of the 3 days before it, one query at a time and in that order; the lookup
\* stops at the first day whose first record has a non-null value (0 counts),
\* makes at most 4 such queries, and when none of the 4 days has a value it
\* returns without fetching or computing a comparison profile and without
\* calling find_equivalent_days.
C12_Lookback == [](C12_LookbackState) /\ [][C12_LookbackStep]_vars

\* a value of 0 found two days before the target date, after two days
\* without a value, and the lookup went on to its end
C12_Witness ==
    /\ pcL = "done"
    /\ current_val = NumValue(0)
    /\ check_date = TargetDay - 2
    /\ Len(Queries) = 4

-----------------------------------------------------------------------------
(* C13: the result of find_equivalent_days within the profile *)

ProfileDates == {DateAt(i) : i \in 1..ProfLen}

\* C13: every date returned by find_equivalent_days is the date of an entry of
\* the profile, and when two dates are returned the first is strictly earlier
\* than the second, whether the dates come from the candidates or from the
\* closest-point fallback.
C13_AscendingProfileDates ==
    pcE = "done" =>
        /\ \A j \in 1..Len(results) : results[j] \in ProfileDates
        /\ \A j \in 1..(Len(results) - 1) : results[j] < results[j + 1]

\* two dates are returned on the candidate path, one of them recorded twice
\* (two crossings select the same day)
C13_Witness ==
    /\ pcE = "done"
    /\ Len(results) = 2
    /\ results[1] < results[2]
    /\ \E i, j \in 1..Len(candidates) : i < j /\ candidates[i] = candidates[j]

====
